---- MODULE Spec2Model ----
(***************************************************************************)
(* A model of src/app.py: the Redactor class (analyze_text, anonymize_text,*)
(* process_text, bold_redacted_items), extract_text_from_file and one run  *)
(* of main().  Strings are sequences of one-character strings.  The        *)
(* Presidio engines and the `unstructured` partitioner are external        *)
(* libraries: each call to them is a nondeterministic choice over a        *)
(* bounded set of outcomes, an exception included.                         *)
(***************************************************************************)
EXTENDS Integers, Sequences, FiniteSets, TLC

\* ------------------------------------------------------------------ bounds
\* Longest text handed to bold_redacted_items.
MaxLen == 3
\* Longest item list handed to bold_redacted_items.
MaxItems == 2
\* Most files in one upload.
MaxFiles == 3
\* Most calls made on one Redactor.
MaxCalls == 2

\* ----------------------------------------------------------------- strings
Min(a, b) == IF a < b THEN a ELSE b

SeqsUpTo(S, n) == UNION {[1..k -> S] : k \in 0..n}

\* Python's s[a:b] for 0 <= a, 0 <= b: both ends clamp to len(s).
Slice(s, a, b) == SubSeq(s, Min(a, Len(s)) + 1, Min(b, Len(s)))

\* Python's s[a:].
SliceFrom(s, a) == SubSeq(s, Min(a, Len(s)) + 1, Len(s))

Whitespace == {" ", "\n"}

RECURSIVE LStrip(_)
LStrip(s) == IF s # <<>> /\ Head(s) \in Whitespace THEN LStrip(Tail(s)) ELSE s

RECURSIVE RStrip(_)
RStrip(s) ==
  IF s # <<>> /\ s[Len(s)] \in Whitespace THEN RStrip(SubSeq(s, 1, Len(s) - 1)) ELSE s

\* str.strip()
Strip(s) == RStrip(LStrip(s))

\* Python truthiness of a str: non-empty.
Truthy(s) == s # <<>>

RECURSIVE SelectTypes(_, _, _)
\* The entity types of the results at the positions i.. that are in P.
SelectTypes(rs, P, i) ==
  IF i > Len(rs) THEN <<>>
  ELSE (IF i \in P THEN <<rs[i].entity_type>> ELSE <<>>) \o SelectTypes(rs, P, i + 1)

VARIABLES
  \* Redactor.bold_redacted_items: its arguments, its locals, the loop
  \* position, the provenance of every character of modified_text, and
  \* the place in the function
  text, items, sorted_items, modified_text, idx, owner, bpc,
  \* a Redactor used directly: its field and the calls made on it, each
  \* with whether the recognizer was invoked and what came back
  entities_to_redact, calls,
  \* one run of main(): the widgets' values, the upload loop, the
  \* st.error messages, the two dicts, the summary and the downloads
  pc, input_mode, redact_options, text_area, uploaded_files, file_i,
  extraction, errors, texts, index, text_results, total_items, download, preview

bold_vars == <<text, items, sorted_items, modified_text, idx, owner, bpc>>

redactor_vars == <<entities_to_redact, calls>>

main_vars ==
  <<pc, input_mode, redact_options, text_area, uploaded_files, file_i,
    extraction, errors, texts, index, text_results, total_items, download, preview>>

vars == <<bold_vars, redactor_vars, main_vars>>

\* --------------------------------------------------------------- dicts
\* A Python dict, in insertion order: a sequence of [name, value] with
\* distinct names.  d[k] = v keeps the place of a key already present.
DictKeys(d) == {d[i].name : i \in 1..Len(d)}

DictSet(d, k, v) ==
  IF k \in DictKeys(d)
  THEN [i \in 1..Len(d) |-> IF d[i].name = k THEN [name |-> k, value |-> v] ELSE d[i]]
  ELSE Append(d, [name |-> k, value |-> v])

DictGet(d, k) == (CHOOSE i \in 1..Len(d) : d[i].name = k)

\* ------------------------------------------------- Redactor, but the preview
EntityTypes == {"PERSON", "EMAIL_ADDRESS"}

\* A call that raised returns nothing; the field is then this value.
NoResult == [text |-> <<>>, items |-> <<>>]

\* What AnalyzerEngine.analyze may return for a text (an external
\* library): at most one match per requested entity type, anywhere in
\* the text.  An empty `entities` means "every entity" to the library.
AnalyzerResults(entities, t) ==
  LET asked == IF entities = {} THEN EntityTypes ELSE entities
      person == IF "PERSON" \in asked
                THEN {<<>>} \cup {<<[entity_type |-> "PERSON", start |-> 0, end |-> e]>> :
                                    e \in 1..Len(t)}
                ELSE {<<>>}
      email == IF "EMAIL_ADDRESS" \in asked
               THEN {<<>>} \cup {<<[entity_type |-> "EMAIL_ADDRESS", start |-> b, end |-> Len(t)]>> :
                                   b \in 0..(Len(t) - 1)}
               ELSE {<<>>}
  IN  {p \o m : p \in person, m \in email}

\* What AnonymizerEngine.anonymize followed by to_json may hold for a
\* non-empty result list (an external library): some of the results are
\* applied, each as a one-character mask, and the items carry offsets of
\* their own.
AnonymizerOutputs(t, analysis_results) ==
  LET n == Len(analysis_results)
      kept == {P \in SUBSET (1..n) : P # {}}
      types(P) == SelectTypes(analysis_results, P, 1)
  IN  {[text |-> [i \in 1..Len(types(P)) |-> "#"],
        items |-> [i \in 1..Len(types(P)) |->
                     [entity_type |-> types(P)[i], start |-> i - 1, end |-> i]]] :
         P \in kept}

\* analyze_text without its guard: the recognizer is always asked.
analyze_text_unguarded(entities, t) ==
  {[called |-> TRUE, raised |-> TRUE, value |-> <<>>]}
    \cup {[called |-> TRUE, raised |-> FALSE, value |-> r] : r \in AnalyzerResults(entities, t)}

\* The outcomes of Redactor.analyze_text: whether analyzer.analyze was
\* called, whether it raised, and the value returned.
analyze_text(entities, t) ==
  IF entities = {} \/ Strip(t) = <<>>
  THEN {[called |-> FALSE, raised |-> FALSE, value |-> <<>>]}
  ELSE {[called |-> TRUE, raised |-> TRUE, value |-> <<>>]}
         \cup {[called |-> TRUE, raised |-> FALSE, value |-> r] :
                 r \in AnalyzerResults(entities, t)}

\* The outcomes of Redactor.anonymize_text.
anonymize_text(t, analysis_results) ==
  IF analysis_results = <<>>
  THEN {[raised |-> FALSE, value |-> [text |-> t, items |-> <<>>]]}
  ELSE {[raised |-> TRUE, value |-> NoResult]}
         \cup {[raised |-> FALSE, value |-> r] : r \in AnonymizerOutputs(t, analysis_results)}

\* The outcomes of Redactor.process_text.
process_text(entities, t) ==
  UNION {IF a.raised
         THEN {[called |-> a.called, raised |-> TRUE, result |-> NoResult]}
         ELSE {[called |-> a.called, raised |-> z.raised, result |-> z.value] :
                 z \in anonymize_text(t, a.value)} :
         a \in analyze_text(entities, t)}

\* The body of main's loop over texts.items() for one text.
ProcessBatchItem(entities, text_content) ==
  IF Strip(text_content) # <<>>
  THEN process_text(entities, text_content)
  ELSE {[called |-> FALSE, raised |-> FALSE,
         result |-> [text |-> text_content, items |-> <<>>]]}

\* -------------------------------------------- Redactor.bold_redacted_items
Marker == <<"*", "*">>

\* The characters a text may hold: an ordinary one and the marker's own.
Alphabet == {"a", "*"}

ItemsOf(n) == {[start |-> s, end |-> e] : s \in 0..n, e \in 0..n} 

\* s[:start] + mark + s[start:end] + mark + s[end:]
SpliceDropsSpan(s, start, end, mark) ==
  Slice(s, 0, start) \o mark \o mark \o SliceFrom(s, end)

Splice(s, start, end, mark) ==
  Slice(s, 0, start) \o mark \o Slice(s, start, end) \o mark \o SliceFrom(s, end)

\* One insertion of sorted(): x goes behind every element that is not
\* after it in the order (the sort is stable, also with reverse=True).
InsertAscending(acc, x) ==
  LET p == Cardinality({i \in 1..Len(acc) : acc[i].start <= x.start})
  IN  SubSeq(acc, 1, p) \o <<x>> \o SubSeq(acc, p + 1, Len(acc))

InsertByStart(acc, x) ==
  LET p == Cardinality({i \in 1..Len(acc) : acc[i].start >= x.start})
  IN  SubSeq(acc, 1, p) \o <<x>> \o SubSeq(acc, p + 1, Len(acc))

RECURSIVE SortFrom(_, _, _)
SortFrom(acc, its, i) ==
  IF i > Len(its) THEN acc ELSE SortFrom(InsertByStart(acc, its[i]), its, i + 1)

\* sorted(items, key=lambda x: x['start'], reverse=True)
SortedByStartReverse(its) == SortFrom(<<>>, its, 1)

RECURSIVE BoldFrom(_, _, _)
BoldFrom(s, sorted, i) ==
  IF i > Len(sorted) THEN s
  ELSE BoldFrom(Splice(s, sorted[i].start, sorted[i].end, Marker), sorted, i + 1)

\* The whole function, input to output.
bold_redacted_items(its, t) ==
  IF its = <<>> THEN t ELSE BoldFrom(t, SortedByStartReverse(its), 1)

BoldInit ==
  /\ text \in SeqsUpTo(Alphabet, MaxLen)
  /\ items \in {its \in SeqsUpTo(ItemsOf(MaxLen), MaxItems) :
                  \A i \in 1..Len(its) : its[i].start <= its[i].end /\ its[i].end <= Len(text)}
  /\ sorted_items = <<>>
  /\ modified_text = <<>>
  /\ idx = 0
  /\ owner = <<>>
  /\ bpc = "call"

\* if not items: return text
BoldEmpty ==
  /\ bpc = "call"
  /\ items = <<>>
  /\ modified_text' = text
  /\ owner' = [i \in 1..Len(text) |-> 0]
  /\ bpc' = "done"
  /\ UNCHANGED <<text, items, sorted_items, idx>>
  /\ UNCHANGED <<redactor_vars, main_vars>>

\* sorted_items = sorted(...); modified_text = text
BoldSort ==
  /\ bpc = "call"
  /\ items # <<>>
  /\ sorted_items' = SortedByStartReverse(items)
  /\ modified_text' = text
  /\ owner' = [i \in 1..Len(text) |-> 0]
  /\ idx' = 1
  /\ bpc' = "loop"
  /\ UNCHANGED <<text, items>>
  /\ UNCHANGED <<redactor_vars, main_vars>>

\* One iteration of `for item in sorted_items`.  owner records, for every
\* character of modified_text, the iteration that inserted it (0: a
\* character of the text); it is spliced exactly as the string is.
BoldLoop ==
  /\ bpc = "loop"
  /\ idx <= Len(sorted_items)
  /\ LET item == sorted_items[idx]
     IN  /\ modified_text' = Splice(modified_text, item.start, item.end, Marker)
         /\ owner' = Splice(owner, item.start, item.end, <<idx, idx>>)
  /\ idx' = idx + 1
  /\ UNCHANGED <<text, items, sorted_items, bpc>>
  /\ UNCHANGED <<redactor_vars, main_vars>>

\* return modified_text
BoldReturn ==
  /\ bpc = "loop"
  /\ idx > Len(sorted_items)
  /\ bpc' = "done"
  /\ UNCHANGED <<text, items, sorted_items, modified_text, idx, owner>>
  /\ UNCHANGED <<redactor_vars, main_vars>>

BoldNext == BoldEmpty \/ BoldSort \/ BoldLoop \/ BoldReturn

\* ------------------------------------------------ extract_text_from_file
\* What partition() may do with an uploaded file (an external library):
\* raise, or return the document's elements, each with its text.
PartitionOutcomes ==
  {[raised |-> TRUE, elements |-> <<>>],
   [raised |-> FALSE, elements |-> << <<" ">> >>],
   [raised |-> FALSE, elements |-> << <<"a">> >>],
   [raised |-> FALSE, elements |-> << <<"a">>, <<" ">>, <<"b">> >>]}

\* None, the value returned from the except branch.
None == [ok |-> FALSE, value |-> <<>>]

RECURSIVE Join(_, _)
\* sep.join(parts)
Join(sep, parts) ==
  IF parts = <<>> THEN <<>>
  ELSE IF Len(parts) = 1 THEN parts[1]
  ELSE parts[1] \o sep \o Join(sep, Tail(parts))

\* element.text and element.text.strip()
KeepElement(t) == Truthy(t) /\ Truthy(Strip(t))

\* extract_text_from_file, given what partition did with the file.
extract_text_from_file(outcome) ==
  IF outcome.raised THEN None
  ELSE [ok |-> TRUE,
        value |-> Join(<<"\n">>, SelectSeq(outcome.elements, KeepElement))]

\* `if extracted_text:` is false for None and for the empty string.
Extracted(x) == x.ok /\ Truthy(x.value)

\* The upload loop without its `if`: every return value is stored.
StoreAlways(d, name, extracted_text) == DictSet(d, name, extracted_text.value)

\* if extracted_text: texts[uploaded_file.name] = extracted_text
StoreExtracted(d, name, extracted_text) ==
  IF Extracted(extracted_text) THEN DictSet(d, name, extracted_text.value) ELSE d

\* ------------------------------------------------------------------ main
INPUT_MODES == {"Text Input", "File Upload"}

FileNames == {"a.txt", "b.txt", "c.txt"}

\* What the text area may hold.
TextAreaInputs == {<<>>, <<" ">>, <<"a">>, <<"a", " ">>}

\* f"redacted_{file_name}.txt"
RedactedName(file_name) == <<"redacted_", file_name, ".txt">>

RECURSIVE SumItems(_, _)
\* sum(len(results['items']) for results in text_results.values())
SumItems(d, i) ==
  IF i > Len(d) THEN 0 ELSE Len(d[i].value.items) + SumItems(d, i + 1)

NoDownload == [kind |-> "none", entries |-> <<>>]

MainInit ==
  /\ pc = "start"
  /\ redact_options \in SUBSET EntityTypes
  /\ input_mode \in INPUT_MODES
  /\ text_area \in (IF input_mode = "Text Input" THEN TextAreaInputs ELSE {<<>>})
  /\ uploaded_files \in (IF input_mode = "File Upload"
                         THEN SeqsUpTo(FileNames, MaxFiles) ELSE {<<>>})
  /\ file_i = 0
  /\ extraction = <<>>
  /\ errors = <<>>
  /\ texts = <<>>
  /\ index = 0
  /\ text_results = <<>>
  /\ total_items = 0
  /\ download = NoDownload
  /\ preview = <<>>

\* if not redact_options: st.sidebar.warning(...); return
NoOptionsReturn ==
  /\ pc = "start"
  /\ redact_options = {}
  /\ pc' = "returned"
  /\ UNCHANGED <<input_mode, redact_options, text_area, uploaded_files, file_i,
                 extraction, errors, texts, index, text_results, total_items,
                 download, preview>>
  /\ UNCHANGED <<bold_vars, redactor_vars>>

\* if input_mode == 'Text Input': ... if text.strip(): texts['Text Input'] = text
TextInput ==
  /\ pc = "start"
  /\ redact_options # {}
  /\ input_mode = "Text Input"
  /\ texts' = IF Truthy(Strip(text_area)) THEN DictSet(texts, "Text Input", text_area)
              ELSE texts
  /\ pc' = "button"
  /\ UNCHANGED <<input_mode, redact_options, text_area, uploaded_files, file_i,
                 extraction, errors, index, text_results, total_items,
                 download, preview>>
  /\ UNCHANGED <<bold_vars, redactor_vars>>

\* elif input_mode == 'File Upload': ... if uploaded_files: for ...
FileUpload ==
  /\ pc = "start"
  /\ redact_options # {}
  /\ input_mode = "File Upload"
  /\ file_i' = 1
  /\ pc' = "extract"
  /\ UNCHANGED <<input_mode, redact_options, text_area, uploaded_files,
                 extraction, errors, texts, index, text_results, total_items,
                 download, preview>>
  /\ UNCHANGED <<bold_vars, redactor_vars>>

\* One iteration of `for uploaded_file in uploaded_files`.  extraction
\* keeps every return value of extract_text_from_file, errors every
\* st.error it made.
ExtractFile ==
  /\ pc = "extract"
  /\ file_i <= Len(uploaded_files)
  /\ \E outcome \in PartitionOutcomes :
       LET name == uploaded_files[file_i]
           extracted_text == extract_text_from_file(outcome)
       IN  /\ extraction' = Append(extraction, extracted_text)
           /\ errors' = IF extracted_text = None THEN Append(errors, name) ELSE errors
           /\ texts' = StoreExtracted(texts, name, extracted_text)
  /\ file_i' = file_i + 1
  /\ UNCHANGED <<pc, input_mode, redact_options, text_area, uploaded_files,
                 index, text_results, total_items, download, preview>>
  /\ UNCHANGED <<bold_vars, redactor_vars>>

UploadDone ==
  /\ pc = "extract"
  /\ file_i > Len(uploaded_files)
  /\ pc' = "button"
  /\ UNCHANGED <<input_mode, redact_options, text_area, uploaded_files, file_i,
                 extraction, errors, texts, index, text_results, total_items,
                 download, preview>>
  /\ UNCHANGED <<bold_vars, redactor_vars>>

\* process_button is False: the run ends with the widgets drawn.
ButtonNotPressed ==
  /\ pc = "button"
  /\ pc' = "idle"
  /\ UNCHANGED <<input_mode, redact_options, text_area, uploaded_files, file_i,
                 extraction, errors, texts, index, text_results, total_items,
                 download, preview>>
  /\ UNCHANGED <<bold_vars, redactor_vars>>

\* if process_button: if not texts: st.warning(...); return
PressedWithoutTexts ==
  /\ pc = "button"
  /\ texts = <<>>
  /\ pc' = "warned"
  /\ UNCHANGED <<input_mode, redact_options, text_area, uploaded_files, file_i,
                 extraction, errors, texts, index, text_results, total_items,
                 download, preview>>
  /\ UNCHANGED <<bold_vars, redactor_vars>>

\* redactor = Redactor(...); text_results = {}.  redact_options is not
\* empty here: main returned above otherwise.
PressedStart ==
  /\ pc = "button"
  /\ texts # <<>>
  /\ text_results' = <<>>
  /\ index' = 1
  /\ pc' = "process"
  /\ UNCHANGED <<input_mode, redact_options, text_area, uploaded_files, file_i,
                 extraction, errors, texts, total_items, download, preview>>
  /\ UNCHANGED <<bold_vars, redactor_vars>>

\* One iteration of the loop over texts.items() that returns.
ProcessOne ==
  /\ pc = "process"
  /\ index <= Len(texts)
  /\ \E out \in ProcessBatchItem(redact_options, texts[index].value) :
       /\ ~out.raised
       /\ text_results' = DictSet(text_results, texts[index].name, out.result)
  /\ index' = index + 1
  /\ UNCHANGED <<pc, input_mode, redact_options, text_area, uploaded_files, file_i,
                 extraction, errors, texts, total_items, download, preview>>
  /\ UNCHANGED <<bold_vars, redactor_vars>>

\* One iteration in which process_text raises: nothing in main catches
\* it, so the exception leaves the loop and main.
ProcessRaise ==
  /\ pc = "process"
  /\ index <= Len(texts)
  /\ \E out \in ProcessBatchItem(redact_options, texts[index].value) : out.raised
  /\ pc' = "raised"
  /\ UNCHANGED <<input_mode, redact_options, text_area, uploaded_files, file_i,
                 extraction, errors, texts, index, text_results, total_items,
                 download, preview>>
  /\ UNCHANGED <<bold_vars, redactor_vars>>

\* if len(texts) == 1: the metrics, the preview and the download button.
DisplaySingle ==
  /\ pc = "process"
  /\ index > Len(texts)
  /\ Len(texts) = 1
  /\ LET file_name == texts[1].name
         results == text_results[DictGet(text_results, file_name)].value
     IN  /\ preview' = IF results.items # <<>>
                       THEN bold_redacted_items(results.items, results.text)
                       ELSE results.text
         /\ download' = [kind |-> "text",
                         entries |-> <<[file_name |-> RedactedName(file_name),
                                        data |-> results.text]>>]
  /\ pc' = "done"
  /\ UNCHANGED <<input_mode, redact_options, text_area, uploaded_files, file_i,
                 extraction, errors, texts, index, text_results, total_items>>
  /\ UNCHANGED <<bold_vars, redactor_vars>>

\* else: the summary and the ZIP archive, one writestr per result.
DisplayBatch ==
  /\ pc = "process"
  /\ index > Len(texts)
  /\ Len(texts) # 1
  /\ total_items' = SumItems(text_results, 1)
  /\ download' = [kind |-> "zip",
                  entries |-> [i \in 1..Len(text_results) |->
                                 [file_name |-> RedactedName(text_results[i].name),
                                  data |-> text_results[i].value.text]]]
  /\ pc' = "done"
  /\ UNCHANGED <<input_mode, redact_options, text_area, uploaded_files, file_i,
                 extraction, errors, texts, index, text_results, preview>>
  /\ UNCHANGED <<bold_vars, redactor_vars>>

MainNext ==
  \/ NoOptionsReturn \/ TextInput \/ FileUpload \/ ExtractFile \/ UploadDone
  \/ ButtonNotPressed \/ PressedWithoutTexts \/ PressedStart
  \/ ProcessOne \/ ProcessRaise \/ DisplaySingle \/ DisplayBatch

\* ------------------------------------------------- a Redactor used directly
\* The texts handed to a Redactor.
RedactorTexts == {<<>>, <<" ">>, <<"\n", " ">>, <<"a">>, <<" ", "a">>, <<"a", " ", "b">>}

RedactorInit ==
  /\ entities_to_redact \in SUBSET EntityTypes
  /\ calls = <<>>

\* redactor.process_text(t)
CallProcessText ==
  /\ Len(calls) < MaxCalls
  /\ \E t \in RedactorTexts :
       \E out \in process_text(entities_to_redact, t) :
         calls' = Append(calls, [via |-> "process_text", text |-> t, called |-> out.called,
                                 raised |-> out.raised, result |-> out.result])
  /\ UNCHANGED entities_to_redact
  /\ UNCHANGED <<bold_vars, main_vars>>

\* The body of the batch loop, for a text of any content.
CallBatchItem ==
  /\ Len(calls) < MaxCalls
  /\ \E t \in RedactorTexts :
       \E out \in ProcessBatchItem(entities_to_redact, t) :
         calls' = Append(calls, [via |-> "batch", text |-> t, called |-> out.called,
                                 raised |-> out.raised, result |-> out.result])
  /\ UNCHANGED entities_to_redact
  /\ UNCHANGED <<bold_vars, main_vars>>

RedactorNext == CallProcessText \/ CallBatchItem

\* ------------------------------------------------------- the specifications
\* The parts of the state a specification does not use stay as they are.
BoldIdle ==
  /\ text = <<>> /\ items = <<>> /\ sorted_items = <<>> /\ modified_text = <<>>
  /\ idx = 0 /\ owner = <<>> /\ bpc = "idle"

RedactorIdle == entities_to_redact = {} /\ calls = <<>>

MainIdle ==
  /\ pc = "idle" /\ redact_options = {} /\ input_mode = "Text Input"
  /\ text_area = <<>> /\ uploaded_files = <<>> /\ file_i = 0 /\ extraction = <<>>
  /\ errors = <<>> /\ texts = <<>> /\ index = 0 /\ text_results = <<>>
  /\ total_items = 0 /\ download = NoDownload /\ preview = <<>>

Init == MainInit /\ BoldIdle /\ RedactorIdle

InitBold == BoldInit /\ RedactorIdle /\ MainIdle

InitRedactor == RedactorInit /\ BoldIdle /\ MainIdle

\* One run of main().
Spec == Init /\ [][MainNext]_vars

\* One call of Redactor.bold_redacted_items.
SpecBold == InitBold /\ [][BoldNext]_vars

\* A Redactor of any configuration, called on any text.
SpecRedactor == InitRedactor /\ [][RedactorNext]_vars

\* ------------------------------------------------ bold_redacted_items: claims
Range(s) == {s[i] : i \in 1..Len(s)}

RECURSIVE SelectIdx(_, _, _)
\* The elements of s at the positions i..Len(s) that are in P, in order.
SelectIdx(s, P, i) ==
  IF i > Len(s) THEN <<>>
  ELSE (IF i \in P THEN <<s[i]>> ELSE <<>>) \o SelectIdx(s, P, i + 1)

\* 0 <= start < end <= len(text) for every item.
ProperItems(its, t) ==
  \A i \in 1..Len(its) : its[i].start < its[i].end /\ its[i].end <= Len(t)

NonOverlapping(its) ==
  \A i, j \in 1..Len(its) :
    i # j => (its[i].end <= its[j].start \/ its[j].end <= its[i].start)

Touching(its) ==
  \E i, j \in 1..Len(its) : i # j /\ its[i].end = its[j].start

RECURSIVE Repeat(_, _)
Repeat(s, n) == IF n = 0 THEN <<>> ELSE s \o Repeat(s, n - 1)

\* The reference rendering, written left to right over the original text:
\* in front of offset i go one marker per item that ends at i and one per
\* item that starts at i; the characters of the text follow untouched.
RECURSIVE ReferenceFrom(_, _, _)
ReferenceFrom(t, its, i) ==
  LET n == Cardinality({k \in 1..Len(its) : its[k].end = i})
           + Cardinality({k \in 1..Len(its) : its[k].start = i})
  IN  Repeat(Marker, n)
      \o (IF i < Len(t) THEN <<t[i + 1]>> \o ReferenceFrom(t, its, i + 1) ELSE <<>>)

Reference(t, its) == ReferenceFrom(t, its, 0)

\* C3: for pairwise non-overlapping in-bounds items (0 <= start < end <=
\* len(text)) given in any order, the returned string is the reference
\* rendering, and during the loop the characters in front of the end of
\* every item not yet processed are still those of the original text (no
\* wrap has shifted its offsets).
C3_DescendingOrderMatchesReference ==
  (ProperItems(items, text) /\ NonOverlapping(items)) =>
    /\ bpc = "done" => modified_text = Reference(text, items)
    /\ bpc = "loop" =>
         \A j \in idx..Len(sorted_items) :
           Slice(modified_text, 0, sorted_items[j].end)
             = Slice(text, 0, sorted_items[j].end)

\* Two non-overlapping items handed over in ascending order have been
\* rendered.
C3_Witness ==
  /\ bpc = "done"
  /\ Len(items) = 2
  /\ ProperItems(items, text) /\ NonOverlapping(items)
  /\ items[1].start < items[2].start
  /\ modified_text # text

HasMarkerRun(s, n) ==
  \E p \in 1..(Len(s) - n + 1) : \A q \in p..(p + n - 1) : s[q] = "*"

\* C8: touching items (the end of one is the start of the next) are
\* rendered without a closing marker running into an opening marker: the
\* output of a text that holds no '*' of its own has no '****'.
C8_TouchingItemsNoDoubledMarker ==
  (/\ bpc = "done"
   /\ ProperItems(items, text) /\ NonOverlapping(items) /\ Touching(items)
   /\ "*" \notin Range(text))
    => ~HasMarkerRun(modified_text, 4)

Reorderings(n) == {f \in [1..n -> 1..n] : \A i, j \in 1..n : f[i] = f[j] => i = j}

\* The characters of the text between the opening and the closing marker
\* that iteration k inserted, the other iterations' markers left out.
Enclosed(k) ==
  LET mine == {p \in 1..Len(owner) : owner[p] = k}
      opening == CHOOSE p \in mine : Cardinality({q \in mine : q < p}) = 1
      closing == CHOOSE p \in mine : Cardinality({q \in mine : q < p}) = 2
  IN  SelectIdx(modified_text,
                {p \in 1..Len(owner) : opening < p /\ p < closing /\ owner[p] = 0}, 1)

\* C9: for in-bounds items that may nest, overlap or share a start, the
\* output is the same for every permutation of the item list, and each
\* item's markers enclose exactly text[start:end].
C9_OverlapAndOrderInsensitive ==
  (bpc = "done" /\ ProperItems(items, text)) =>
    /\ \A f \in Reorderings(Len(items)) :
         bold_redacted_items([i \in 1..Len(items) |-> items[f[i]]], text) = modified_text
    /\ \A k \in 1..Len(sorted_items) :
         Enclosed(k) = Slice(text, sorted_items[k].start, sorted_items[k].end)

\* Iterations of the loop completed so far.
Processed == IF items = <<>> THEN 0 ELSE idx - 1

\* C10: the loop only inserts markers.  For items with 0 <= start <= end
\* <= len(text), overlapping or not, after every iteration the working
\* string without the inserted markers is the original text, every
\* inserted character is a '*', and the string has grown by 4 characters
\* per iteration; the result is 4 * len(items) longer than the text, and
\* is the text itself for an empty item list.
C10_OnlyInsertsMarkers ==
  /\ bpc \in {"loop", "done"} =>
       /\ Len(owner) = Len(modified_text)
       /\ SelectIdx(modified_text, {p \in 1..Len(owner) : owner[p] = 0}, 1) = text
       /\ \A p \in 1..Len(owner) : owner[p] # 0 => modified_text[p] = "*"
       /\ Len(modified_text) = Len(text) + 4 * Processed
  /\ bpc = "done" => Len(modified_text) = Len(text) + 4 * Len(items)
  /\ (bpc = "done" /\ items = <<>>) => modified_text = text

\* Two partially overlapping items have been rendered.
C10_Witness ==
  /\ bpc = "done"
  /\ Len(items) = 2
  /\ items[1].start < items[2].start
  /\ items[2].start < items[1].end
  /\ items[1].end < items[2].end
\* ------------------------------------------------------------ main: claims
\* The upload loop's iterations so far whose extraction returned a
\* non-empty text, and those whose extraction failed.
Succeeded == {i \in 1..Len(extraction) : Extracted(extraction[i])}

Failed == {i \in 1..Len(extraction) : extraction[i] = None}

SucceededNames == {uploaded_files[i] : i \in Succeeded}

\* A result that is an error marker and not a {text, items} record.
IsErrorMarker(r) == "error" \in DOMAIN r

\* C1: a text whose detection or anonymization raises never aborts the
\* batch: when the run of a batch of two or more texts has ended after
\* processing began, every text-id of the batch has its entry in the
\* results (a result, or an error marker for the failing one).
C1_FailureNeverAbortsBatch ==
  (pc \in {"raised", "done"} /\ Len(texts) >= 2) =>
    \A i \in 1..Len(texts) : texts[i].name \in DictKeys(text_results)

RECURSIVE SumOverNames(_)
\* The items of the results of the names in S, counted name by name.
SumOverNames(S) ==
  IF S = {} THEN 0
  ELSE LET n == CHOOSE x \in S : TRUE
       IN  Len(text_results[DictGet(text_results, n)].value.items)
             + SumOverNames(S \ {n})

C7_ExportKeepsEveryDocument ==
  (pc = "done" /\ input_mode = "File Upload") =>
    /\ Len(text_results) = 1 => download.kind = "text"
    /\ Len(text_results) >= 2 => download.kind = "zip"
    /\ Len(download.entries) = Cardinality(Succeeded)
    /\ \A i, j \in 1..Len(download.entries) :
         download.entries[i].file_name = download.entries[j].file_name => i = j

\* -------------------------------------------------------- Redactor: claims
HasNonWhitespace(t) == \E i \in 1..Len(t) : t[i] \notin Whitespace

\* C2: every call that invoked the recognizer had a non-empty category set
\* and a text with a non-whitespace character; every other call did not
\* invoke it, did not raise, and returned {text: the input, items: []}.
C2_RecognizerOnlyWhenNeeded ==
  \A i \in 1..Len(calls) :
    LET c == calls[i]
        needed == entities_to_redact # {} /\ HasNonWhitespace(c.text)
    IN  /\ c.called => needed
        /\ ~needed =>
             /\ ~c.called
             /\ ~c.raised
             /\ c.result = [text |-> c.text, items |-> <<>>]

\* A Redactor with no category was asked for a text with content through
\* process_text and for a blank text through the batch loop's body.
C2_Witness ==
  /\ entities_to_redact = {}
  /\ Len(calls) = 2
  /\ calls[1].via = "process_text" /\ calls[1].text = <<" ", "a">>
  /\ calls[2].via = "batch" /\ calls[2].text = <<"\n", " ">>
  /\ ~calls[1].called /\ ~calls[2].called
====
